---- MODULE Spec2Model ----
(***************************************************************************)
(* Model of MicroserviceMetricsCalculator.calculate_metrics and            *)
(* calculate_scheme_metrics (Cargo/multi/metrics_calculator.py).           *)
(*                                                                         *)
(* The calculator object holds the loaded catalogues (operations,          *)
(* op_type_map, op_weights, schemes); calculate_metrics iterates the       *)
(* schemes, calculate_scheme_metrics iterates the services of one scheme.  *)
(* One action models one iteration of each loop, or one way to leave it.   *)
(*                                                                         *)
(* Python's float results are modelled as exact fractions in lowest terms  *)
(* ([num, den] with den > 0); rounding of binary floating point is outside *)
(* the model.  Scheme names are the keys of a dict (unique) and are        *)
(* modelled by the position of the scheme in iteration order; service      *)
(* names are modelled by the position of the service in its scheme.        *)
(***************************************************************************)
EXTENDS Integers, Sequences, FiniteSets, TLC

\* ------------------------------------------------------------------ bounds
MaxSchemes == 2
MaxServices == 2
MaxUseCases == 2
MaxAttrLen == 2

\* ------------------------------------------------------- exact fractions
Abs(n) == IF n < 0 THEN -n ELSE n

RECURSIVE GCD(_, _)
GCD(a, b) == IF b = 0 THEN a ELSE GCD(b, a % b)

\* n / d for d > 0, in lowest terms
Frac(n, d) ==
    LET g == GCD(Abs(n), d)
    IN  IF g = 0 THEN [num |-> 0, den |-> 1]
        ELSE [num |-> n \div g, den |-> d \div g]

Zero == Frac(0, 1)
One == Frac(1, 1)
FAdd(x, y) == Frac(x.num * y.den + y.num * x.den, x.den * y.den)
FSub(x, y) == Frac(x.num * y.den - y.num * x.den, x.den * y.den)
FMul(x, y) == Frac(x.num * y.num, x.den * y.den)
FDivInt(x, n) == Frac(x.num, x.den * n)
FLe(x, y) == x.num * y.den <= y.num * x.den
FMin(x, y) == IF FLe(x, y) THEN x ELSE y

\* ------------------------------------------------------ sequence helpers
SeqsUpTo(S, n) == UNION {[1..k -> S] : k \in 0..n}

Range(s) == {s[k] : k \in DOMAIN s}

RECURSIVE SumSeq(_)
SumSeq(s) == IF s = <<>> THEN 0 ELSE Head(s) + SumSeq(Tail(s))

RECURSIVE FSumSeq(_)
FSumSeq(s) == IF s = <<>> THEN Zero ELSE FAdd(Head(s), FSumSeq(Tail(s)))

RECURSIVE SelectSeqOf(_, _)
SelectSeqOf(s, S) ==
    IF s = <<>> THEN <<>>
    ELSE IF Head(s) \in S THEN <<Head(s)>> \o SelectSeqOf(Tail(s), S)
         ELSE SelectSeqOf(Tail(s), S)

Occurrences(s, x) == Cardinality({k \in DOMAIN s : s[k] = x})

RECURSIVE SumOver(_, _)
SumOver(f, S) ==
    IF S = {} THEN 0
    ELSE LET x == CHOOSE y \in S : TRUE IN f[x] + SumOver(f, S \ {x})

Max(a, b) == IF a >= b THEN a ELSE b

\* --------------------------------------------------------- the catalogues
Attrs == {"Order.id", "Order.status"}
OpNames == {"CreateOrder", "GetOrder"}
\* a use case name that has no entry in self.operations
UnknownOp == "Ghost"
UseCaseNames == OpNames \cup {UnknownOp}
TypeNames == {"Create", "Update", "Delete", "Read"}

DefaultOpWeights ==
    [t \in TypeNames |->
        CASE t = "Create" -> 4 [] t = "Update" -> 3 [] t = "Delete" -> 2 [] OTHER -> 1]

VARIABLES
    operations,     \* self.operations: name -> [read, write] (lists of attribute ids)
    op_type_map,    \* self.op_type_map: name -> type name (partial)
    op_weights,     \* self.op_weights: type name -> weight (partial)
    schemes,        \* self.schemes in iteration order: sequence of service lists
    pc,             \* "start" | "loop" | "services" | "done"
    i,              \* position of the scheme the loop of calculate_metrics is at
    all_results,    \* calculate_metrics: all_results
    scheme_summary, \* calculate_metrics: scheme_summary
    j,              \* position of the service the loop of calculate_scheme_metrics is at
    results,        \* calculate_scheme_metrics: results
    scheme_metrics  \* calculate_scheme_metrics: scheme_metrics

inputs == <<operations, op_type_map, op_weights, schemes>>
locals == <<j, results, scheme_metrics>>
vars == <<operations, op_type_map, op_weights, schemes, pc, i,
          all_results, scheme_summary, j, results, scheme_metrics>>

\* ------------------------------------------- calculate_scheme_metrics body
\* a variant that keeps one occurrence of every defined use case
RECURSIVE DefinedUseCases_Distinct(_)
DefinedUseCases_Distinct(use_cases) ==
    IF use_cases = <<>> THEN <<>>
    ELSE LET front == DefinedUseCases_Distinct(SubSeq(use_cases, 1, Len(use_cases) - 1))
             last == use_cases[Len(use_cases)]
         IN  IF last \in DOMAIN operations /\ last \notin Range(front)
             THEN Append(front, last) ELSE front

\* lines 225-228, 249-251: use cases without a definition are passed over
DefinedUseCases(use_cases) == SelectSeqOf(use_cases, DOMAIN operations)

\* lines 230-237: every element of the read and the write list of every
\* defined use case is added to all_params and counted once in
\* param_access_count
ReadParams(use_cases) ==
    UNION {Range(operations[uc].read) : uc \in Range(DefinedUseCases(use_cases))}
WriteParams(use_cases) ==
    UNION {Range(operations[uc].write) : uc \in Range(DefinedUseCases(use_cases))}
AllParams(use_cases) == ReadParams(use_cases) \cup WriteParams(use_cases)

RECURSIVE AccessesOf(_, _)
AccessesOf(ucs, p) ==
    IF ucs = <<>> THEN 0
    ELSE Occurrences(operations[Head(ucs)].read, p)
         + Occurrences(operations[Head(ucs)].write, p)
         + AccessesOf(Tail(ucs), p)

ParamAccessCount(use_cases) ==
    [p \in AllParams(use_cases) |-> AccessesOf(DefinedUseCases(use_cases), p)]

\* a variant that counts every attribute once for the whole service
MfSum_DistinctParams(use_cases) == Cardinality(AllParams(use_cases))

\* line 240
MfSum(use_cases) ==
    LET c == ParamAccessCount(use_cases) IN SumOver(c, DOMAIN c)

\* a variant without the complement
Lcom_NoComplement(mf_sum, m, f) ==
    IF m * f > 0 THEN Frac(mf_sum, m * f) ELSE Zero

\* line 243
Lcom(mf_sum, m, f) ==
    IF m * f > 0 THEN FSub(One, Frac(mf_sum, m * f)) ELSE Zero

\* lines 254-255
OpWeight(uc) ==
    LET op_type == IF uc \in DOMAIN op_type_map THEN op_type_map[uc] ELSE "Read"
    IN  IF op_type \in DOMAIN op_weights THEN op_weights[op_type] ELSE 1

\* a variant that also weighs the use cases without a definition
RECURSIVE ServiceWeight_CountsUndefined(_)
ServiceWeight_CountsUndefined(use_cases) ==
    IF use_cases = <<>> THEN 0
    ELSE OpWeight(Head(use_cases)) + ServiceWeight_CountsUndefined(Tail(use_cases))

\* lines 246, 256
RECURSIVE ServiceWeight(_)
ServiceWeight(use_cases) ==
    IF use_cases = <<>> THEN 0
    ELSE (IF Head(use_cases) \in DOMAIN operations THEN OpWeight(Head(use_cases)) ELSE 0)
         + ServiceWeight(Tail(use_cases))

\* lines 263-264
FloorOne(params) == IF params # {} THEN Cardinality(params) ELSE 1

\* a variant without the cap
Dgs_Uncapped(ipr, opr, fp, cp) ==
    FAdd(Frac(ipr, Max(1, fp)), Frac(opr, Max(1, cp)))

\* line 265
Dgs(ipr, opr, fp, cp) ==
    FMin(One, FAdd(Frac(ipr, Max(1, fp)), Frac(opr, Max(1, cp))))

\* lines 249-275
OperationDetails(use_cases) ==
    LET defined == DefinedUseCases(use_cases)
        fp == FloorOne(ReadParams(use_cases))
        cp == FloorOne(WriteParams(use_cases))
    IN  [k \in DOMAIN defined |->
            LET uc == defined[k]
                ipr == Cardinality(Range(operations[uc].read))
                opr == Cardinality(Range(operations[uc].write))
            IN  [Operation |-> uc, IPR |-> ipr, OPR |-> opr, FP |-> fp, CP |-> cp,
                 OT |-> OpWeight(uc), DGS |-> Dgs(ipr, opr, fp, cp)]]

\* line 280
Fgs(ot, service_weight) ==
    IF service_weight > 0 THEN Frac(ot, service_weight) ELSE Zero

\* lines 240-243: lcom of one service
ServiceLcom(use_cases) ==
    Lcom(MfSum(use_cases), Len(use_cases), Cardinality(AllParams(use_cases)))

\* lines 278-283: the SGM_Operation of every detail, and their sum sgm
SgmOperations(use_cases) ==
    LET details == OperationDetails(use_cases)
        service_weight == ServiceWeight(use_cases)
    IN  [k \in DOMAIN details |->
            FMul(details[k].DGS, Fgs(details[k].OT, service_weight))]
ServiceSgm(use_cases) == FSumSeq(SgmOperations(use_cases))

\* lines 286-306: the records appended to results for one service
ServiceRecords(scheme_name, service_name, use_cases) ==
    LET noo == Len(use_cases)
        service_weight == ServiceWeight(use_cases)
        details == OperationDetails(use_cases)
        sgm_op == SgmOperations(use_cases)
    IN  [k \in DOMAIN details |->
            [Scheme |-> scheme_name, Service |-> service_name, NOO |-> noo,
             LCOM |-> ServiceLcom(use_cases), SGM |-> ServiceSgm(use_cases),
             MF |-> MfSum(use_cases), M |-> noo,
             F |-> Cardinality(AllParams(use_cases)),
             Operation |-> details[k].Operation,
             IPR |-> details[k].IPR, OPR |-> details[k].OPR,
             FP |-> details[k].FP, CP |-> details[k].CP,
             OT |-> details[k].OT, O |-> service_weight,
             DGS |-> details[k].DGS,
             FGS |-> Fgs(details[k].OT, service_weight),
             SGM_Operation |-> sgm_op[k]]]

\* a variant that counts the services that were processed
ServiceCount_ProcessedOnly(services) ==
    Cardinality({v \in DOMAIN services : services[v].use_cases # <<>>})

\* line 207
ServiceCount(services) == Len(services)

\* a variant that keeps the last service's count
UpdateMaxNoo_Last(max_noo, noo) == noo

\* line 217
UpdateMaxNoo(max_noo, noo) == Max(max_noo, noo)

\* lines 313-315
Average(total, service_count) ==
    IF service_count > 0 THEN FDivInt(total, service_count) ELSE total

\* a variant that accepts every service list
NoServices_Never(services) == FALSE

\* line 200
NoServices(services) == services = <<>>

\* a variant that keeps the records of the services processed before the raise
AfterFailure_KeepsPartial(collected, partial) == collected \o partial

\* lines 192-194: what all_results holds after a scheme raised
AfterFailure(collected, partial) == collected

\* ------------------------------------------------------------ the inputs
\* A service as load_schemes builds it (lines 157-163).  use_cases is whatever
\* JSON value useCaseResponsibility holds for the service: a list of names
\* (is_list), or a non-zero number (not is_list), which is truthy and has no
\* len().
ListService(u) == [use_cases |-> u, is_list |-> TRUE]
ScalarService == [use_cases |-> <<>>, is_list |-> FALSE]

ScenarioOperations ==
    [n \in OpNames |->
        IF n = "CreateOrder"
        THEN [read |-> <<>>, write |-> <<"Order.id", "Order.status">>]
        ELSE [read |-> <<"Order.id", "Order.status">>, write |-> <<>>]]

ScenarioTypeMap ==
    [n \in OpNames |-> IF n = "CreateOrder" THEN "Create" ELSE "Read"]

ScenarioServices == <<ListService(<<"CreateOrder", "GetOrder">>)>>

UseCaseLists == SeqsUpTo(UseCaseNames, MaxUseCases)
ServiceValues == {ListService(u) : u \in UseCaseLists} \cup {ScalarService}
AttrLists == SeqsUpTo(Attrs, MaxAttrLen)

\* op_type_map: any partial map from operation names to a type of the weight
\* table or to a type op_weights does not list; an operation it leaves out is
\* a Read
TypeMaps ==
    UNION {[D -> {"Create", "Archive"}] : D \in SUBSET OpNames}

\* op_weights: the default table, or a configured one
WeightTables ==
    {DefaultOpWeights, [DefaultOpWeights EXCEPT !["Read"] = 0]}

Start ==
    /\ pc = "start"
    /\ i = 1
    /\ all_results = <<>>
    /\ scheme_summary = <<>>
    /\ j = 1
    /\ results = <<>>
    /\ scheme_metrics = [ALCOM |-> Zero, ASGM |-> Zero, Max_NOO |-> 0]

\* one scheme, any services, the catalogue of the end-to-end scenario
Init ==
    /\ operations = ScenarioOperations
    /\ op_type_map = ScenarioTypeMap
    /\ op_weights = DefaultOpWeights
    /\ schemes \in SeqsUpTo(SeqsUpTo(ServiceValues, MaxServices), 1)
    /\ Start

\* one scheme of at most one service, any catalogue
InitService ==
    /\ operations \in
         {[ScenarioOperations EXCEPT !["GetOrder"] = [read |-> r, write |-> w]] :
             r \in AttrLists, w \in AttrLists}
    /\ op_type_map \in TypeMaps
    /\ op_weights \in WeightTables
    /\ schemes \in SeqsUpTo(SeqsUpTo(ServiceValues, 1), 1)
    /\ Start

\* the schemes a batch is made of: every list of at most two services that
\* have no use cases, use cases with or without a definition, or a malformed
\* use-case value
BatchServiceValues ==
    {ListService(<<>>), ListService(<<"CreateOrder", "GetOrder">>),
     ListService(<<"CreateOrder", UnknownOp>>), ScalarService}
BatchSchemes ==
    {<<>>} \cup {<<a>> : a \in BatchServiceValues}
           \cup {<<a, b>> : a \in BatchServiceValues, b \in BatchServiceValues}

InitBatch ==
    /\ operations = ScenarioOperations
    /\ op_type_map = ScenarioTypeMap
    /\ op_weights = DefaultOpWeights
    /\ schemes \in SeqsUpTo(BatchSchemes, MaxSchemes)
    /\ Start

\* ----------------------------------------------------------- the actions
\* lines 175-177
ReturnEmpty ==
    /\ pc = "start"
    /\ schemes = <<>>
    /\ pc' = "done"
    /\ UNCHANGED <<inputs, i, all_results, scheme_summary, locals>>

\* line 179, first iteration
BeginLoop ==
    /\ pc = "start"
    /\ schemes # <<>>
    /\ pc' = "loop"
    /\ UNCHANGED <<inputs, i, all_results, scheme_summary, locals>>

\* lines 182-183 and 198-207: the call that passes the check of line 200
EnterScheme ==
    /\ pc = "loop"
    /\ i <= Len(schemes)
    /\ ~NoServices(schemes[i])
    /\ results' = <<>>
    /\ scheme_metrics' = [ALCOM |-> Zero, ASGM |-> Zero, Max_NOO |-> 0]
    /\ j' = 1
    /\ pc' = "services"
    /\ UNCHANGED <<inputs, i, all_results, scheme_summary>>

\* lines 200-201 raise ValueError, lines 192-194 catch it
RejectScheme ==
    /\ pc = "loop"
    /\ i <= Len(schemes)
    /\ NoServices(schemes[i])
    /\ all_results' = AfterFailure(all_results, <<>>)
    /\ i' = i + 1
    /\ UNCHANGED <<inputs, pc, scheme_summary, locals>>

\* lines 211-214
SkipService ==
    /\ pc = "services"
    /\ j <= Len(schemes[i])
    /\ schemes[i][j].is_list
    /\ schemes[i][j].use_cases = <<>>
    /\ j' = j + 1
    /\ UNCHANGED <<inputs, pc, i, all_results, scheme_summary, results, scheme_metrics>>

\* lines 216-310
ProcessService ==
    /\ pc = "services"
    /\ j <= Len(schemes[i])
    /\ schemes[i][j].is_list
    /\ schemes[i][j].use_cases # <<>>
    /\ LET use_cases == schemes[i][j].use_cases
       IN  /\ results' = results \o ServiceRecords(i, j, use_cases)
           /\ scheme_metrics' =
                [ALCOM |-> FAdd(scheme_metrics.ALCOM, ServiceLcom(use_cases)),
                 ASGM |-> FAdd(scheme_metrics.ASGM, ServiceSgm(use_cases)),
                 Max_NOO |-> UpdateMaxNoo(scheme_metrics.Max_NOO, Len(use_cases))]
    /\ j' = j + 1
    /\ UNCHANGED <<inputs, pc, i, all_results, scheme_summary>>

\* line 216 raises TypeError (len of a number), lines 192-194 catch it
RaiseInService ==
    /\ pc = "services"
    /\ j <= Len(schemes[i])
    /\ ~schemes[i][j].is_list
    /\ all_results' = AfterFailure(all_results, results)
    /\ i' = i + 1
    /\ pc' = "loop"
    /\ j' = 1
    /\ results' = <<>>
    /\ scheme_metrics' = [ALCOM |-> Zero, ASGM |-> Zero, Max_NOO |-> 0]
    /\ UNCHANGED <<inputs, scheme_summary>>

\* lines 312-317 and 185-191
FinishScheme ==
    /\ pc = "services"
    /\ j > Len(schemes[i])
    /\ LET service_count == ServiceCount(schemes[i])
       IN  scheme_summary' = Append(scheme_summary,
              [Scheme |-> i,
               ALCOM |-> Average(scheme_metrics.ALCOM, service_count),
               ASGM |-> Average(scheme_metrics.ASGM, service_count),
               NOO_max |-> scheme_metrics.Max_NOO])
    /\ all_results' = all_results \o results
    /\ i' = i + 1
    /\ pc' = "loop"
    /\ j' = 1
    /\ results' = <<>>
    /\ scheme_metrics' = [ALCOM |-> Zero, ASGM |-> Zero, Max_NOO |-> 0]
    /\ UNCHANGED inputs

\* line 196
Return ==
    /\ pc = "loop"
    /\ i > Len(schemes)
    /\ pc' = "done"
    /\ UNCHANGED <<inputs, i, all_results, scheme_summary, locals>>

Next ==
    \/ ReturnEmpty
    \/ BeginLoop
    \/ EnterScheme
    \/ RejectScheme
    \/ SkipService
    \/ ProcessService
    \/ RaiseInService
    \/ FinishScheme
    \/ Return

Spec == Init /\ [][Next]_vars
SpecService == InitService /\ [][Next]_vars
SpecBatch == InitBatch /\ [][Next]_vars

\* ---------------------------------------------------------- the properties
\* every record produced so far: those returned to calculate_metrics and
\* those still in the running call's results
Emitted == all_results \o results

RecordsOf(recs, scheme_name, service_name) ==
    LET OfService(r) == r.Scheme = scheme_name /\ r.Service = service_name
    IN  SelectSeq(recs, OfService)

\* the (scheme, service) pairs that have a record in recs
ServicesIn(recs) == {<<r.Scheme, r.Service>> : r \in Range(recs)}

Finished == {row.Scheme : row \in Range(scheme_summary)}

ScenarioInput ==
    /\ operations = ScenarioOperations
    /\ op_type_map = ScenarioTypeMap
    /\ op_weights = DefaultOpWeights
    /\ schemes = <<ScenarioServices>>

ScenarioRecord(op, ipr, opr, ot, fgs) ==
    [Scheme |-> 1, Service |-> 1, NOO |-> 2, LCOM |-> [num |-> 0, den |-> 1],
     SGM |-> [num |-> 1, den |-> 1], MF |-> 4, M |-> 2, F |-> 2,
     Operation |-> op, IPR |-> ipr, OPR |-> opr, FP |-> 2, CP |-> 2,
     OT |-> ot, O |-> 5, DGS |-> [num |-> 1, den |-> 1], FGS |-> fgs,
     SGM_Operation |-> fgs]

\* C1: in the end-to-end scenario calculate_metrics returns exactly the two
\* detail records and the one summary row the spec lists: NOO = M = 2, F = 2,
\* MF = 4, LCOM = 0, O = 5, FP = CP = 2, SGM = 1; CreateOrder IPR 0, OPR 2,
\* DGS 1, FGS 4/5, SGM_Operation 4/5; GetOrder IPR 2, OPR 0, DGS 1, FGS 1/5,
\* SGM_Operation 1/5; ALCOM = 0, ASGM = 1, Max_NOO = 2.
C1_EndToEndScenario ==
    (ScenarioInput /\ pc = "done") =>
        /\ all_results =
             <<ScenarioRecord("CreateOrder", 0, 2, 4, [num |-> 4, den |-> 5]),
               ScenarioRecord("GetOrder", 2, 0, 1, [num |-> 1, den |-> 5])>>
        /\ scheme_summary =
             <<[Scheme |-> 1, ALCOM |-> [num |-> 0, den |-> 1],
                ASGM |-> [num |-> 1, den |-> 1], NOO_max |-> 2]>>

C1_Witness == ScenarioInput /\ pc = "done" /\ Len(scheme_summary) = 1

\* C2: for every service with emitted records whose total weight O is
\* greater than 0, the FGS of its records sum to exactly 1 and their OT sum to
\* O, also when use cases lack a definition or are listed more than once.
C2_FgsSumsToOne ==
    \A sv \in ServicesIn(Emitted) :
        LET recs == RecordsOf(Emitted, sv[1], sv[2])
        IN  /\ \A k \in DOMAIN recs : recs[k].O = recs[1].O
            /\ recs[1].O > 0 =>
                 /\ SumSeq([k \in DOMAIN recs |-> recs[k].OT]) = recs[1].O
                 /\ FSumSeq([k \in DOMAIN recs |-> recs[k].FGS]) = [num |-> 1, den |-> 1]

C2_Witness ==
    /\ pc = "done"
    /\ schemes = <<(<<ListService(<<UnknownOp, "GetOrder">>)>>)>>
    /\ Len(all_results) = 1
    /\ all_results[1].O > 0

\* C3: ALCOM and ASGM of a finished scheme are the sums of LCOM and of SGM
\* over its processed services divided by the number of services the scheme
\* declares, skipped services included.  (A processed service without records
\* has no defined use case, hence F = 0 and LCOM = SGM = 0.)
RECURSIVE FSumOver(_, _)
FSumOver(f, S) ==
    IF S = {} THEN [num |-> 0, den |-> 1]
    ELSE LET x == CHOOSE y \in S : TRUE IN FAdd(f[x], FSumOver(f, S \ {x}))

C3_AveragesOverDeclaredServices ==
    \A n \in DOMAIN scheme_summary :
        LET row == scheme_summary[n]
            declared == Len(schemes[row.Scheme])
            withRecords == {v \in 1..declared :
                               RecordsOf(all_results, row.Scheme, v) # <<>>}
            lcomOf == [v \in withRecords |-> RecordsOf(all_results, row.Scheme, v)[1].LCOM]
            sgmOf == [v \in withRecords |-> RecordsOf(all_results, row.Scheme, v)[1].SGM]
        IN  /\ declared > 0
            /\ FMul(row.ALCOM, [num |-> declared, den |-> 1]) = FSumOver(lcomOf, withRecords)
            /\ FMul(row.ASGM, [num |-> declared, den |-> 1]) = FSumOver(sgmOf, withRecords)

C3_Witness ==
    /\ pc = "done"
    /\ schemes = <<(<<ListService(<<"CreateOrder", UnknownOp>>), ListService(<<>>)>>)>>
    /\ Len(scheme_summary) = 1
    /\ scheme_summary[1].ALCOM = [num |-> 1, den |-> 4]
    /\ scheme_summary[1].ASGM = [num |-> 1, den |-> 2]

\* C4: a scheme with an empty service list is rejected before any of its
\* services is processed, and no detail record and no summary row ever
\* carries its name.
C4_EmptySchemeRejected ==
    /\ pc = "services" => schemes[i] # <<>>
    /\ \A k \in DOMAIN schemes :
         schemes[k] = <<>> =>
            /\ \A r \in Range(Emitted) : r.Scheme # k
            /\ \A row \in Range(scheme_summary) : row.Scheme # k

C4_Witness ==
    /\ pc = "done"
    /\ Len(schemes) = 2
    /\ schemes[1] = <<>>
    /\ scheme_summary # <<>>
    /\ all_results # <<>>

\* C5: whenever calculate_metrics is between schemes or has returned, the
\* two collections hold, in iteration order, exactly what each scheme
\* iterated so far contributes when processed alone if it does not fail, and
\* nothing for a scheme that fails; while a scheme is being processed the
\* collections hold the same for the schemes before it.
Fails(services) ==
    services = <<>> \/ \E v \in DOMAIN services : ~services[v].is_list

RECURSIVE AloneRecords(_, _, _)
AloneRecords(scheme_name, services, v) ==
    IF v > Len(services) THEN <<>>
    ELSE (IF services[v].use_cases = <<>> THEN <<>>
          ELSE ServiceRecords(scheme_name, v, services[v].use_cases))
         \o AloneRecords(scheme_name, services, v + 1)

AloneSummary(scheme_name, services) ==
    LET processed == {v \in DOMAIN services : services[v].use_cases # <<>>}
        lcomOf == [v \in processed |-> ServiceLcom(services[v].use_cases)]
        sgmOf == [v \in processed |-> ServiceSgm(services[v].use_cases)]
        nooOf == {Len(services[v].use_cases) : v \in DOMAIN services}
    IN  [Scheme |-> scheme_name,
         ALCOM |-> Frac(FSumOver(lcomOf, processed).num,
                        FSumOver(lcomOf, processed).den * Len(services)),
         ASGM |-> Frac(FSumOver(sgmOf, processed).num,
                       FSumOver(sgmOf, processed).den * Len(services)),
         NOO_max |-> CHOOSE m \in nooOf : \A x \in nooOf : m >= x]

RECURSIVE ExpectedRecords(_)
ExpectedRecords(n) ==
    IF n = 0 THEN <<>>
    ELSE ExpectedRecords(n - 1)
         \o (IF Fails(schemes[n]) THEN <<>> ELSE AloneRecords(n, schemes[n], 1))

RECURSIVE ExpectedSummary(_)
ExpectedSummary(n) ==
    IF n = 0 THEN <<>>
    ELSE ExpectedSummary(n - 1)
         \o (IF Fails(schemes[n]) THEN <<>> ELSE <<AloneSummary(n, schemes[n])>>)

C5_FailureIsolation ==
    pc # "start" =>
        /\ all_results = ExpectedRecords(i - 1)
        /\ scheme_summary = ExpectedSummary(i - 1)

C5_Witness ==
    /\ pc = "done"
    /\ Len(schemes) = 2
    /\ schemes[1] = <<ListService(<<"CreateOrder", "GetOrder">>), ScalarService>>
    /\ ~Fails(schemes[2])
    /\ all_results # <<>>
    /\ \A r \in Range(all_results) : r.Scheme = 2

\* C6 as claimed: the number of records emitted for a service equals the NOO
\* those records carry.
C6_OneRecordPerUseCase ==
    \A sv \in ServicesIn(all_results) :
        LET recs == RecordsOf(all_results, sv[1], sv[2])
        IN  Len(recs) = recs[1].NOO

\* C6 as amended: for every service of a finished scheme the emitted records
\* are, in list order, one per listed use case that has an operation
\* definition (repetitions kept); each carries NOO = the length of the whole
\* use-case list, so the number of records is NOO minus the number of listed
\* use cases without a definition.
C6_OneRecordPerDefinedUseCase ==
    \A s \in Finished : \A v \in DOMAIN schemes[s] :
        LET recs == RecordsOf(all_results, s, v)
            use_cases == schemes[s][v].use_cases
            HasDefinition(uc) == uc \in DOMAIN operations
            Undefined(uc) == uc \notin DOMAIN operations
        IN  /\ [k \in DOMAIN recs |-> recs[k].Operation] = SelectSeq(use_cases, HasDefinition)
            /\ \A k \in DOMAIN recs : recs[k].NOO = Len(use_cases)
            /\ Len(recs) = Len(use_cases) - Len(SelectSeq(use_cases, Undefined))

C6_Witness ==
    /\ pc = "done"
    /\ schemes = <<(<<ListService(<<"GetOrder", "GetOrder">>),
                      ListService(<<UnknownOp, "CreateOrder">>)>>)>>
    /\ Len(all_results) = 3
    /\ all_results[3].NOO = 2

\* C7: Max_NOO of a finished scheme is the largest use-case-list length among
\* its services (0 when all lists are empty), use cases without a definition
\* counted.
C7_MaxNoo ==
    \A n \in DOMAIN scheme_summary :
        LET services == schemes[scheme_summary[n].Scheme]
            lengths == {Len(services[v].use_cases) : v \in DOMAIN services}
        IN  /\ scheme_summary[n].NOO_max \in lengths
            /\ \A x \in lengths : scheme_summary[n].NOO_max >= x

C7_Witness ==
    /\ pc = "done"
    /\ schemes = <<(<<ListService(<<UnknownOp, UnknownOp>>), ListService(<<"GetOrder">>)>>)>>
    /\ Len(scheme_summary) = 1
    /\ scheme_summary[1].NOO_max = 2

\* C8: LCOM of a service is 0, and MF = M * F, whenever every use case of the
\* service has a definition and accesses every attribute of the service's
\* aggregate attribute set exactly once (counting its read and write lists
\* together).
EveryOperationAccessesAllOnce(use_cases) ==
    /\ \A uc \in Range(use_cases) : uc \in DOMAIN operations
    /\ LET aggregate == UNION {Range(operations[uc].read) \cup Range(operations[uc].write) :
                                  uc \in Range(use_cases)}
       IN  \A uc \in Range(use_cases) : \A p \in aggregate :
              Occurrences(operations[uc].read, p) + Occurrences(operations[uc].write, p) = 1

C8_LcomZeroWhenFullyCohesive ==
    \A s \in DOMAIN schemes : \A v \in DOMAIN schemes[s] :
        LET use_cases == schemes[s][v].use_cases
            recs == RecordsOf(Emitted, s, v)
        IN  (use_cases # <<>> /\ EveryOperationAccessesAllOnce(use_cases)
             /\ (s \in Finished \/ (s = i /\ pc = "services" /\ v < j)))
            => /\ Len(recs) = Len(use_cases)
               /\ \A k \in DOMAIN recs :
                    /\ recs[k].LCOM = [num |-> 0, den |-> 1]
                    /\ recs[k].MF = recs[k].M * recs[k].F

C8_Witness ==
    /\ pc = "done"
    /\ operations["GetOrder"] = [read |-> <<"Order.status">>, write |-> <<"Order.id">>]
    /\ schemes = <<(<<ListService(<<"CreateOrder", "GetOrder">>)>>)>>
    /\ Len(all_results) = 2
    /\ all_results[2].MF = 4

\* C9: in every emitted record FP >= 1, CP >= 1, 0 <= DGS <= 1, and DGS is
\* IPR/FP + OPR/CP when that sum is at most 1 and 1 otherwise.
C9_DgsCapped ==
    \A r \in Range(Emitted) :
        /\ r.FP >= 1 /\ r.CP >= 1 /\ r.IPR >= 0 /\ r.OPR >= 0
        /\ r.DGS.den > 0
        /\ 0 <= r.DGS.num /\ r.DGS.num <= r.DGS.den
        /\ IF r.IPR * r.CP + r.OPR * r.FP <= r.FP * r.CP
           THEN r.DGS.num * (r.FP * r.CP) = (r.IPR * r.CP + r.OPR * r.FP) * r.DGS.den
           ELSE r.DGS = [num |-> 1, den |-> 1]

C9_Witness ==
    /\ pc = "done"
    /\ \E k \in DOMAIN all_results :
         /\ all_results[k].IPR * all_results[k].CP + all_results[k].OPR * all_results[k].FP
              > all_results[k].FP * all_results[k].CP
         /\ all_results[k].DGS = [num |-> 1, den |-> 1]

\* C10: the LCOM of every processed service lies in [0, 1], i.e.
\* 0 <= MF <= M * F whenever M * F > 0.
C10_LcomInUnitInterval ==
    \A r \in Range(Emitted) :
        /\ r.LCOM.den > 0
        /\ 0 <= r.LCOM.num /\ r.LCOM.num <= r.LCOM.den
        /\ r.M * r.F > 0 => (0 <= r.MF /\ r.MF <= r.M * r.F)

====
